---- MODULE Spec2Model ----
(***************************************************************************)
(* A model of src/model.js (CD_Model 1.4.0): one collection instance made  *)
(* by CD_Model.extend(methods), its settings, its record store, and the    *)
(* requests it has handed to $.ajax; beside it, a second instance of the   *)
(* same or of another type.                                                *)
(***************************************************************************)
EXTENDS Integers, Sequences, FiniteSets, TLC

VARIABLES
    endpoint,        \* settings.endpoint
    autoload,        \* settings.init
    proto_last,      \* the prototype's _last_request: "false", "true" or "null"
    params,          \* settings.params, an ordered key/value map
    constructed,     \* whether new Model_Collection(properties) has run
    init_ajax,       \* own property _init_ajax: "false", "true", or "deleted"
    init_deferred,   \* own property _init: -1 deleted, 0 the constructor's Deferred, n request n
    last_request,    \* own property _last_request: 0 no own property, n request n
    store,           \* the records the collection holds, in enumeration order
    reqs,            \* every request given to $.ajax, in issue order
    ret,             \* what the last call returned or threw
    other            \* a second instance: its type, its own properties, its records

vars == <<endpoint, autoload, proto_last, params, constructed, init_ajax,
          init_deferred, last_request, store, reqs, ret, other>>

----------------------------------------------------------------------------
(* Bounds of the model *)

MaxRequests == 2     \* requests issued in one behaviour
MaxOffset == 4       \* |params.offset| stays within this

----------------------------------------------------------------------------
(* JavaScript values *)

Num(n) == [n |-> n, t |-> "num", s |-> ""]
Str(x) == [n |-> 0, t |-> "str", s |-> x]
NaN == [n |-> 0, t |-> "nan", s |-> ""]
Undefined == [n |-> 0, t |-> "undef", s |-> ""]
Null == [n |-> 0, t |-> "null", s |-> ""]

\* ! v
Truthy(v) ==
    CASE v.t = "num" -> v.n # 0
      [] v.t = "str" -> v.s # ""
      [] OTHER -> FALSE

\* the characters of the strings record attributes and query arguments hold; any other
\* string of the model holds no digit and is taken whole
Chars(x) ==
    CASE x = "" -> <<>>
      [] x = "5" -> <<"5">>
      [] x = "7" -> <<"7">>
      [] x = "7x" -> <<"7", "x">>
      [] x = "abc" -> <<"a", "b", "c">>
      [] x = "jo" -> <<"j", "o">>
      [] x = "OH" -> <<"O", "H">>
      [] x = "John" -> <<"J", "o", "h", "n">>
      [] x = "joan" -> <<"j", "o", "a", "n">>
      [] x = "Bob" -> <<"B", "o", "b">>
      [] x = "admin" -> <<"a", "d", "m", "i", "n">>
      [] x = "Admin" -> <<"A", "d", "m", "i", "n">>
      [] OTHER -> <<x>>

Digits == <<"0", "1", "2", "3", "4", "5", "6", "7", "8", "9">>
IsDigit(c) == \E d \in 1..10 : Digits[d] = c
DigitValue(c) == (CHOOSE d \in 1..10 : Digits[d] = c) - 1

\* the length of the longest prefix of c made of digits
DigitPrefix(c) ==
    LET RECURSIVE scan(_)
        scan(i) == IF i <= Len(c) /\ IsDigit(c[i]) THEN scan(i + 1) ELSE i - 1
    IN scan(1)

\* the value of the digits c[1..n]
DigitsValue(c, n) ==
    LET RECURSIVE val(_, _)
        val(acc, i) == IF i > n THEN acc ELSE val(acc * 10 + DigitValue(c[i]), i + 1)
    IN val(0, 1)

\* + v: a string is a number when all of it is digits, 0 when empty, NaN otherwise
ToNumber(v) ==
    CASE v.t = "num" -> v
      [] v.t = "null" -> Num(0)
      [] v.t = "str" -> LET c == Chars(v.s)
                        IN IF DigitPrefix(c) = Len(c) THEN Num(DigitsValue(c, Len(c)))
                           ELSE NaN
      [] OTHER -> NaN

\* parseInt(v): the leading digits of the string form of v, NaN when there is none
parseInt(v) ==
    CASE v.t = "num" -> v
      [] v.t = "str" -> LET c == Chars(v.s)
                        IN IF DigitPrefix(c) = 0 THEN NaN
                           ELSE Num(DigitsValue(c, DigitPrefix(c)))
      [] OTHER -> NaN

\* a === b; NaN is equal to nothing
StrictEquals(a, b) == a.t # "nan" /\ a = b

\* a == b
LooseEquals(a, b) ==
    CASE a.t = "nan" \/ b.t = "nan" -> FALSE
      [] a.t = b.t -> a = b
      [] a.t \in {"null", "undef"} \/ b.t \in {"null", "undef"} ->
            a.t \in {"null", "undef"} /\ b.t \in {"null", "undef"}
      [] OTHER -> LET x == ToNumber(a)
                      y == ToNumber(b)
                  IN x.t = "num" /\ y.t = "num" /\ x.n = y.n

\* String(v), as encodeURIComponent and string concatenation see it
ToStr(v) ==
    CASE v.t = "num" -> ToString(v.n)
      [] v.t = "str" -> v.s
      [] v.t = "nan" -> "NaN"
      [] v.t = "null" -> "null"
      [] OTHER -> "undefined"

\* a + b
Add(a, b) ==
    IF a.t = "str" \/ b.t = "str" THEN Str(ToStr(a) \o ToStr(b))
    ELSE LET x == ToNumber(a)
             y == ToNumber(b)
         IN IF x.t = "nan" \/ y.t = "nan" THEN NaN ELSE Num(x.n + y.n)

\* a - b
Sub(a, b) ==
    LET x == ToNumber(a)
        y == ToNumber(b)
    IN IF x.t = "nan" \/ y.t = "nan" THEN NaN ELSE Num(x.n - y.n)

\* a * b
Mul(a, b) ==
    LET x == ToNumber(a)
        y == ToNumber(b)
    IN IF x.t = "nan" \/ y.t = "nan" THEN NaN ELSE Num(x.n * y.n)

\* a || b
Or(a, b) == IF Truthy(a) THEN a ELSE b

----------------------------------------------------------------------------
(* Plain objects used as parameter maps: own keys in insertion order *)

Keys(p) == {p[i].k : i \in 1..Len(p)}

\* key in p
Has(p, key) == key \in Keys(p)

\* p[key]
Get(p, key) ==
    IF Has(p, key) THEN p[CHOOSE i \in 1..Len(p) : p[i].k = key].v ELSE Undefined

\* p[key] = v
Set(p, key, v) ==
    IF Has(p, key)
    THEN [i \in 1..Len(p) |-> IF p[i].k = key THEN [v |-> v, k |-> key] ELSE p[i]]
    ELSE Append(p, [v |-> v, k |-> key])

\* delete p[key]
Del(p, key) == SelectSeq(p, LAMBDA e : e.k # key)

\* $.extend({}, a, b)
Extend(a, b) ==
    LET RECURSIVE put(_, _)
        put(acc, i) == IF i > Len(b) THEN acc ELSE put(Set(acc, b[i].k, b[i].v), i + 1)
    IN put(a, 1)

----------------------------------------------------------------------------
(* URL and query-string building *)

\* encodeURIComponent(v), on the strings the model uses
encodeURIComponent(v) ==
    LET s == ToStr(v)
    IN IF s = "a b" THEN "a%20b" ELSE s

\* the for-in loop of api().get and url: one pair per own key whose value is not null
query_string(p) ==
    LET RECURSIVE build(_, _)
        build(qs, i) ==
            IF i > Len(p) THEN qs
            ELSE IF p[i].v = Null THEN build(qs, i + 1)
            ELSE build((IF qs = "" THEN "?" ELSE qs \o "&")
                         \o encodeURIComponent(Str(p[i].k)) \o "="
                         \o encodeURIComponent(p[i].v), i + 1)
    IN build("", 1)

\* endpoint.replace(/\/+$/, '')
strip_slashes(e) ==
    CASE e = "/api/users/" -> "/api/users"
      [] e = "/api/users//" -> "/api/users"
      [] OTHER -> e

\* the path api().get hands to _make_request
get_path(p, segment) ==
    IF Truthy(segment) THEN ToStr(segment) \o "/" \o query_string(p) ELSE query_string(p)

\* a loop of url that would write a pair for a null value as well
url_query_string_with_nulls(p) ==
    LET RECURSIVE build(_, _)
        build(qs, i) ==
            IF i > Len(p) THEN qs
            ELSE build((IF qs = "" THEN "?" ELSE qs \o "&")
                         \o encodeURIComponent(Str(p[i].k)) \o "="
                         \o encodeURIComponent(p[i].v), i + 1)
    IN build("", 1)

\* the for-in loop of url, a copy of the loop of api().get
url_query_string(p) ==
    LET RECURSIVE build(_, _)
        build(qs, i) ==
            IF i > Len(p) THEN qs
            ELSE IF p[i].v = Null THEN build(qs, i + 1)
            ELSE build((IF qs = "" THEN "?" ELSE qs \o "&")
                         \o encodeURIComponent(Str(p[i].k)) \o "="
                         \o encodeURIComponent(p[i].v), i + 1)
    IN build("", 1)

\* CD_Model.prototype.url with a parameter map given
url(p, segments) ==
    strip_slashes(endpoint) \o "/"
        \o (IF Truthy(segments) THEN ToStr(segments) \o "/" \o url_query_string(p)
            ELSE url_query_string(p))

----------------------------------------------------------------------------
(* The collection store *)

\* new CD_Result(payload); src is the request whose response carried it (0: seed data)
CD_Result(payload, src) == [src |-> src, id |-> payload]

\* a constructor that would overwrite the store instead of pushing onto it
CD_Model_overwriting(st, properties, src) ==
    IF properties.isobj
    THEN [i \in 1..Len(properties.items) |-> CD_Result(properties.items[i], src)]
    ELSE st

\* CD_Model.call(mc, properties): one record pushed per enumerable property
CD_Model(st, properties, src) ==
    IF properties.isobj
    THEN st \o [i \in 1..Len(properties.items) |-> CD_Result(properties.items[i], src)]
    ELSE st

\* response[mc.settings.attribute]
attribute == "data"

response_attribute(body) ==
    IF body.attr = attribute
    THEN [isobj |-> TRUE, items |-> body.items]
    ELSE [isobj |-> FALSE, items |-> <<>>]

\* CD_Model.prototype.empty, on the record store
empty_store(st) == <<>>

----------------------------------------------------------------------------
(* The local queries get, get_where and like *)

Pair(key, v) == [v |-> v, k |-> key]

\* the properties the payloads of the seeds and the responses carry, by payload number
Payload(n) ==
    CASE n = 1 -> <<Pair("id", Num(5)), Pair("name", Str("John")), Pair("role", Str("admin"))>>
      [] n = 2 -> <<Pair("id", Str("5")), Pair("name", Str("joan"))>>
      [] n = 3 -> <<Pair("id", Str("7x")), Pair("name", Null), Pair("role", Str("admin"))>>
      [] OTHER -> <<Pair("name", Str("Bob")), Pair("role", Str("Admin"))>>

Own(key, v) == [v |-> v, own |-> key]

\* for (prop in this) with hasOwnProperty: the records under their indices, then the own
\* properties the constructor and _make_request have set and empty() has not deleted
own_properties(st, ia, d, lr) ==
    [i \in 1..Len(st) |-> Own("record", st[i])]
        \o (IF ia # "deleted" THEN <<Own("_init_ajax", 0)>> ELSE <<>>)
        \o (IF d # -1 THEN <<Own("_init", 0)>> ELSE <<>>)
        \o (IF lr > 0 THEN <<Own("_last_request", 0)>> ELSE <<>>)

\* this[prop][clause]: a boolean, a Deferred and a jqXHR have none of the attributes of
\* a record
attribute_of(prop, clause) ==
    IF prop.own = "record" THEN Get(Payload(prop.v.id), clause) ELSE Undefined

\* what a query returns: null, undefined, one own property, or an array of them
Nothing(kind) == [items |-> <<>>, kind |-> kind]
One(prop) == [items |-> <<prop>>, kind |-> "one"]
Array(props) == [items |-> props, kind |-> "array"]

\* a get that would compare the ids without coercion
get_strict(props, id) ==
    LET hits == SelectSeq(props, LAMBDA prop : /\ attribute_of(prop, "id") # Undefined
                                              /\ StrictEquals(attribute_of(prop, "id"), id))
    IN IF hits = <<>> THEN Nothing("null") ELSE One(hits[1])

\* CD_Model.prototype.get
get(props, id) ==
    LET hits == SelectSeq(props, LAMBDA prop :
                    /\ attribute_of(prop, "id") # Undefined
                    /\ StrictEquals(parseInt(attribute_of(prop, "id")), parseInt(id)))
    IN IF hits = <<>> THEN Nothing("null") ELSE One(hits[1])

\* the test of one where clause on one own property
where_clause(prop, clause) ==
    /\ attribute_of(prop, clause.k) # Undefined
    /\ LooseEquals(attribute_of(prop, clause.k), clause.v)

\* CD_Model.prototype.get_where
get_where(props, where, limit) ==
    LET RECURSIVE obj_props(_, _)
        obj_props(i, matched) ==
            IF i > Len(props) THEN matched
            ELSE LET include == \A j \in 1..Len(where.map) : where_clause(props[i], where.map[j])
                     m2 == IF include THEN Append(matched, props[i]) ELSE matched
                 IN IF StrictEquals(Num(Len(m2)), limit) THEN m2 ELSE obj_props(i + 1, m2)
        found == obj_props(1, <<>>)
    IN IF ~where.isobj THEN Array(<<>>)
       ELSE IF StrictEquals(limit, Num(1))
            THEN (IF found = <<>> THEN Nothing("undefined") ELSE One(found[1]))
            ELSE Array(found)

\* c.toLowerCase(), on the letters of the model
lower(c) ==
    CASE c = "A" -> "a"
      [] c = "B" -> "b"
      [] c = "H" -> "h"
      [] c = "J" -> "j"
      [] c = "O" -> "o"
      [] OTHER -> c

toLowerCase(c) == [i \in 1..Len(c) |-> lower(c[i])]

\* whether the characters n occur in the characters h, at any position
Contains(h, n) == \E i \in 0..(Len(h) - Len(n)) : SubSeq(h, i + 1, i + Len(n)) = n

\* text.match(new RegExp(pattern, 'gi')), the pattern holding no special character
match_gi(text, pattern) == Contains(toLowerCase(Chars(text)), toLowerCase(Chars(pattern)))

\* the test of one like clause on one own property
like_clause(prop, clause) ==
    /\ attribute_of(prop, clause.k) # Undefined
    /\ attribute_of(prop, clause.k) # Null
    /\ match_gi(ToStr(attribute_of(prop, clause.k)), ToStr(clause.v))

\* CD_Model.prototype.like
like(props, likes) ==
    IF ~likes.isobj THEN Array(<<>>)
    ELSE Array(SelectSeq(props, LAMBDA prop :
                   Cardinality({j \in 1..Len(likes.map) : like_clause(prop, likes.map[j])})
                       = Len(likes.map)))

----------------------------------------------------------------------------
(* The request controller *)

\* a handler registered with .always() would run for every outcome
always_fires(outcome) == TRUE

\* a handler registered with .fail() would run for every outcome but success
fail_fires(outcome) == outcome # "success"

\* whether a handler registered with .done() runs for an outcome
done_fires(outcome) == outcome = "success"

\* the done handler every fetch registers: CD_Model.call(mc, response[attribute])
done_handler(st, body, i) == CD_Model(st, response_attribute(body), i)

NoBody == [items |-> <<>>, attr |-> ""]

\* request i of rs settles with an outcome; its handlers run
settle(rs, st, i, outcome, body) ==
    LET runs == rs[i].handler /\ done_fires(outcome)
    IN [store |-> IF runs THEN done_handler(st, body, i) ELSE st,
        reqs |-> [rs EXCEPT ![i].state = outcome, ![i].handled = runs]]

\* jqXHR.abort(): nothing happens to a request that has settled
abort(rs, st, i) ==
    IF rs[i].state = "pending" THEN settle(rs, st, i, "abort", NoBody)
    ELSE [store |-> st, reqs |-> rs]

\* this._last_request as _make_request reads it: the own property, else the prototype's
this_last_request(own) == IF own > 0 THEN "xhr" ELSE proto_last

\* _make_request past its endpoint check, entered with the own _last_request = own and
\* the store st: the request is built, the retained one aborted in beforeSend, and the
\* new one retained
send(method, path, op, handler, before, st, own) ==
    LET request == [url |-> strip_slashes(endpoint) \o "/" \o path,
                    handler |-> handler, state |-> "pending", handled |-> FALSE,
                    method |-> method, op |-> op, before |-> before]
        lq == this_last_request(own)
    IN IF lq # "false"
       THEN LET a == IF lq # "null" /\ lq # "true"
                     THEN abort(reqs, st, own)
                     ELSE [store |-> st, reqs |-> reqs]
            IN [store |-> a.store, reqs |-> Append(a.reqs, request),
                threw |-> FALSE, last |-> Len(reqs) + 1]
       ELSE [store |-> st, reqs |-> Append(reqs, request), threw |-> FALSE, last |-> own]

\* a _make_request that would not check the endpoint
make_request_unchecked(method, path, op, handler, before, st, own) ==
    send(method, path, op, handler, before, st, own)

\* _make_request(method, path): throws when no endpoint is set
make_request(method, path, op, handler, before, st, own) ==
    IF endpoint = ""
    THEN [store |-> st, reqs |-> reqs, threw |-> TRUE, last |-> own]
    ELSE send(method, path, op, handler, before, st, own)

Ret(op, kind, req, u) == [url |-> u, kind |-> kind, op |-> op, req |-> req]

\* this.api().get(p).done(handler), after the caller has made the params p, the store st
\* and the own _last_request own
fetch(op, p, st, own) ==
    LET r == make_request("get", get_path(p, Undefined), op, TRUE, store, st, own)
    IN /\ params' = p
       /\ store' = r.store
       /\ reqs' = r.reqs
       /\ last_request' = r.last
       /\ ret' = IF r.threw THEN Ret(op, "throw", 0, "")
                 ELSE Ret(op, "promise", Len(r.reqs), r.reqs[Len(r.reqs)].url)

----------------------------------------------------------------------------
(* Inputs *)

Endpoints == {"", "/api/users/"}
ProtoLast == {"false", "true", "null"}
Limit(n) == <<[v |-> Num(n), k |-> "limit"]>>
InitialParams == {<<>>, Limit(2), Append(Limit(2), [v |-> Num(2), k |-> "offset"])}
NoSeed == [isobj |-> FALSE, items |-> <<>>, given |-> FALSE]
Seeds == {NoSeed, [isobj |-> TRUE, items |-> <<3>>, given |-> TRUE]}
Bodies == {[items |-> <<2, 1>>, attr |-> "data"], [items |-> <<1>>, attr |-> "rows"]}
Counts == {Undefined, Num(0), Num(1), Num(2)}
Pages == {Num(1), Num(2), Num(3)}
FilterValues == {Undefined, Str("active")}
SortValues == {Undefined, Str(""), Str("name")}
ParamKeys == {"status", "offset"}
ParamValues == FilterValues \cup {Str(""), Num(0)}
Seeded(items) == [isobj |-> TRUE, items |-> items, given |-> TRUE]
QuerySeeds == {NoSeed, Seeded(<<1, 2, 3, 4>>), Seeded(<<4, 3, 2>>), Seeded(<<2, 1>>)}
Ids == {Num(5), Str("5"), Num(7), Str("abc"), Undefined}
Map(m) == [isobj |-> TRUE, map |-> m]
NotAMap == [isobj |-> FALSE, map |-> <<>>]
Wheres ==
    {NotAMap, Map(<<>>),
     Map(<<Pair("id", Num(5))>>), Map(<<Pair("id", Str("5"))>>), Map(<<Pair("id", Num(7))>>),
     Map(<<Pair("role", Str("admin"))>>), Map(<<Pair("name", Null)>>),
     Map(<<Pair("name", Str("John")), Pair("role", Str("admin"))>>)}
Limits == {Undefined, Num(1), Num(2)}
Likes ==
    {NotAMap, Map(<<>>),
     Map(<<Pair("name", Str("jo"))>>), Map(<<Pair("name", Str("OH"))>>),
     Map(<<Pair("role", Str("Admin"))>>), Map(<<Pair("id", Num(5))>>),
     Map(<<Pair("name", Str("jo")), Pair("role", Str("admin"))>>)}
Types == {"same", "other"}
QueryMaps ==
    {<<>>, Limit(2),
     <<Pair("status", Null)>>,
     <<Pair("status", Null), Pair("limit", Num(2))>>,
     <<Pair("limit", Num(2)), Pair("status", Null), Pair("q", Str("a b"))>>,
     <<Pair("q", Str("a b")), Pair("offset", Num(0)), Pair("sort", Str("name"))>>}
Segments == {Undefined, Str(""), Str("7")}
InitParams == {[map |-> <<>>, given |-> FALSE], [map |-> Limit(1), given |-> TRUE]}
ReplaceParams == InitParams
Reasons == {"error", "timeout"}

InRange(v) == v.t = "num" => (v.n >= -MaxOffset /\ v.n <= MaxOffset)
CanIssue == Len(reqs) < MaxRequests

----------------------------------------------------------------------------
(* After CD_Model.extend(methods): the settings and the prototype are set, no
   instance exists yet *)

\* the second instance before it is constructed, and once it is: an instance of the
\* same type reads the settings of that type, one of another type the params p
NoOther ==
    [params |-> <<>>, constructed |-> FALSE, init_ajax |-> "deleted",
     init_deferred |-> -1, last_request |-> 0, store |-> <<>>, type |-> ""]
Other(type, p, st) ==
    [params |-> p, constructed |-> TRUE, init_ajax |-> "false",
     init_deferred |-> 0, last_request |-> 0, store |-> st, type |-> type]

Start(E, A, L, P) ==
    /\ endpoint \in E
    /\ autoload \in A
    /\ proto_last \in L
    /\ params \in P
    /\ constructed = FALSE
    /\ init_ajax = "deleted"
    /\ init_deferred = -1
    /\ last_request = 0
    /\ store = <<>>
    /\ reqs = <<>>
    /\ ret = Ret("", "none", 0, "")
    /\ other = NoOther

\* a type with an endpoint and a limit, with and without the abort option
Init == Start({"/api/users/"}, {FALSE}, ProtoLast, {Limit(2)})

\* any endpoint, the endpoint unset included
InitVerbs == Start(Endpoints, {FALSE}, ProtoLast, {Limit(2)})

\* any params, with and without limit and offset
InitPaging == Start(Endpoints, {FALSE}, {"false"}, InitialParams)

\* any endpoint, any params, with and without the abort option
InitParameters == Start(Endpoints, {FALSE}, ProtoLast, InitialParams)

\* a type with an endpoint, with and without the abort option, for the local queries
InitQueries == Start({"/api/users/"}, {FALSE}, {"false", "null"}, {Limit(2)})

\* a type with an endpoint and a limit, of which and beside which a second instance is made
InitInstances == Start({"/api/users/"}, {FALSE}, {"false"}, {Limit(2)})

\* any endpoint, settings.init on and off
InitAutoload == Start(Endpoints, BOOLEAN, {"false"}, {Limit(2)})

\* a type without endpoint, any params
InitUnset == Start({""}, {FALSE}, {"false"}, InitialParams)

Settings == <<endpoint, autoload, proto_last>>

\* the body of Model_Collection.prototype.init, entered with _init_ajax = ia, _init = d
init_call(p, ia, d, st) ==
    IF ia # "true"
    THEN LET p1 == IF p.given THEN Extend(params, p.map) ELSE params
             r == make_request("get", get_path(p1, Undefined), "init", TRUE, st, st, last_request)
         IN /\ params' = p1
            /\ store' = r.store
            /\ reqs' = r.reqs
            /\ last_request' = r.last
            /\ init_deferred' = IF r.threw THEN d ELSE Len(r.reqs)
            /\ init_ajax' = IF r.threw THEN ia ELSE "true"
            /\ ret' = IF r.threw THEN Ret("init", "throw", 0, "")
                      ELSE Ret("init", "promise", Len(r.reqs), r.reqs[Len(r.reqs)].url)
    ELSE /\ ret' = Ret("init", "promise", d, "")
         /\ init_deferred' = d
         /\ init_ajax' = ia
         /\ store' = st
         /\ UNCHANGED <<params, reqs, last_request>>

\* a constructor that would load whenever settings.init is on, seed data or not
Model_Collection_always_loading(properties) ==
    /\ ~constructed
    /\ constructed' = TRUE
    /\ IF autoload /\ endpoint # ""
       THEN init_call([map |-> <<>>, given |-> FALSE], "false", 0, <<>>)
       ELSE /\ init_ajax' = "false"
            /\ init_deferred' = 0
            /\ store' = IF properties.given THEN CD_Model(<<>>, properties, 0) ELSE <<>>
            /\ ret' = Ret("new", "none", 0, "")
            /\ UNCHANGED <<params, reqs, last_request>>
    /\ UNCHANGED <<Settings, other>>

\* new Model_Collection(properties)
Model_Collection(properties) ==
    /\ ~constructed
    /\ constructed' = TRUE
    /\ IF ~properties.given /\ autoload /\ endpoint # ""
       THEN init_call([map |-> <<>>, given |-> FALSE], "false", 0, <<>>)
       ELSE /\ init_ajax' = "false"
            /\ init_deferred' = 0
            /\ store' = IF properties.given THEN CD_Model(<<>>, properties, 0) ELSE <<>>
            /\ ret' = Ret("new", "none", 0, "")
            /\ UNCHANGED <<params, reqs, last_request>>
    /\ UNCHANGED <<Settings, other>>

\* Model_Collection.prototype.init
init(p) ==
    /\ constructed
    /\ CanIssue
    /\ init_call(p, init_ajax, init_deferred, store)
    /\ UNCHANGED <<Settings, other, constructed>>

\* a param that would reset the offset as filter does
param_resetting_offset(key, value) ==
    /\ constructed
    /\ params' = Set(IF Truthy(value) THEN Set(params, key, value) ELSE Del(params, key),
                     "offset", Num(0))
    /\ ret' = Ret("param", "none", 0, "")
    /\ UNCHANGED <<Settings, other, constructed, init_ajax, init_deferred, last_request, store, reqs>>

\* CD_Model.prototype.param
param(key, value) ==
    /\ constructed
    /\ params' = IF Truthy(value) THEN Set(params, key, value) ELSE Del(params, key)
    /\ ret' = Ret("param", "none", 0, "")
    /\ UNCHANGED <<Settings, other, constructed, init_ajax, init_deferred, last_request, store, reqs>>

\* a filter that would edit the field and leave the offset alone, as param does
filter_keeping_offset(field, value) ==
    /\ constructed
    /\ CanIssue
    /\ fetch("filter", IF Truthy(value) THEN Set(params, field, value) ELSE Del(params, field),
             store, last_request)
    /\ UNCHANGED <<Settings, other, constructed, init_ajax, init_deferred>>

\* CD_Model.prototype.filter, field given
filter(field, value) ==
    /\ constructed
    /\ CanIssue
    /\ LET p1 == IF Truthy(value) THEN Set(params, field, value) ELSE Del(params, field)
       IN fetch("filter", Set(p1, "offset", Num(0)), store, last_request)
    /\ UNCHANGED <<Settings, other, constructed, init_ajax, init_deferred>>

\* CD_Model.prototype.sort
sort(value) ==
    /\ constructed
    /\ CanIssue
    /\ fetch("sort", IF value # Undefined
                     THEN Set(Set(params, "sort", value), "offset", Num(0))
                     ELSE Del(params, "sort"), store, last_request)
    /\ UNCHANGED <<Settings, other, constructed, init_ajax, init_deferred>>

\* CD_Model.prototype.search
search(value) ==
    /\ constructed
    /\ CanIssue
    /\ fetch("search", IF value # Undefined
                       THEN Set(Set(params, "q", value), "offset", Num(0))
                       ELSE Del(params, "q"), store, last_request)
    /\ UNCHANGED <<Settings, other, constructed, init_ajax, init_deferred>>

\* a check that would let a given count stand in for the missing limit, as url_next does
limit_or_count_missing(count) == ~Has(params, "limit") /\ ~Truthy(count)

\* the check next, prev and page make first: ! ('limit' in mc.settings.params)
limit_missing(count) == ~Has(params, "limit")

\* the early return of next, prev and page
no_limit(op) ==
    /\ ret' = Ret(op, "rejected", 0, "")
    /\ UNCHANGED <<params, store, reqs, last_request>>

\* the params of next, prev and page once count and the default offset are applied
with_limit(count) ==
    LET p1 == IF count # Undefined THEN Set(params, "limit", ToNumber(count)) ELSE params
    IN IF ~Has(p1, "offset") THEN Set(p1, "offset", Num(0)) ELSE p1

\* the params next(count) stores
next_params(count) ==
    LET p2 == with_limit(count)
    IN Set(p2, "offset", Add(Get(p2, "offset"), Get(p2, "limit")))

\* CD_Model.prototype.next
next(count) ==
    /\ constructed
    /\ CanIssue
    /\ IF limit_missing(count) THEN no_limit("next")
       ELSE /\ InRange(Get(next_params(count), "offset"))
            /\ fetch("next", next_params(count), store, last_request)
    /\ UNCHANGED <<Settings, other, constructed, init_ajax, init_deferred>>

\* the params page(page, count) stores
page_params(n, count) ==
    LET p2 == with_limit(count)
    IN Set(p2, "offset", Mul(Get(p2, "limit"), Sub(n, Num(1))))

\* CD_Model.prototype.page
page(n, count) ==
    /\ constructed
    /\ CanIssue
    /\ IF limit_missing(count) THEN no_limit("page")
       ELSE /\ InRange(Get(page_params(n, count), "offset"))
            /\ fetch("page", page_params(n, count), store, last_request)
    /\ UNCHANGED <<Settings, other, constructed, init_ajax, init_deferred>>

\* the params prev(count) stores
prev_params(count) ==
    LET p2 == with_limit(count)
    IN Set(p2, "offset", Sub(Get(p2, "offset"), Get(p2, "limit")))

\* CD_Model.prototype.prev
prev(count) ==
    /\ constructed
    /\ CanIssue
    /\ IF limit_missing(count) THEN no_limit("prev")
       ELSE /\ InRange(Get(prev_params(count), "offset"))
            /\ fetch("prev", prev_params(count), store, last_request)
    /\ UNCHANGED <<Settings, other, constructed, init_ajax, init_deferred>>

----------------------------------------------------------------------------
(* replace and empty *)

\* an empty that would delete the records and keep the other own properties
empty_records_only ==
    /\ constructed
    /\ store' = empty_store(store)
    /\ ret' = Ret("empty", "this", 0, "")
    /\ UNCHANGED <<Settings, other, constructed, params, reqs, init_ajax, init_deferred, last_request>>

\* CD_Model.prototype.empty: every own enumerable property of the instance is deleted,
\* the records and _init_ajax, _init and _last_request with them
empty ==
    /\ constructed
    /\ store' = empty_store(store)
    /\ init_ajax' = "deleted"
    /\ init_deferred' = -1
    /\ last_request' = 0
    /\ ret' = Ret("empty", "this", 0, "")
    /\ UNCHANGED <<Settings, other, constructed, params, reqs>>

\* a replace that would keep the old params whatever it is given
replace_keeping_params(p) ==
    /\ constructed
    /\ CanIssue
    /\ init_ajax' = "deleted"
    /\ init_deferred' = -1
    /\ fetch("replace", params, empty_store(store), 0)
    /\ UNCHANGED <<Settings, other, constructed>>

\* CD_Model.prototype.replace
replace(p) ==
    /\ constructed
    /\ CanIssue
    /\ init_ajax' = "deleted"
    /\ init_deferred' = -1
    /\ fetch("replace", IF p.given THEN p.map ELSE params, empty_store(store), 0)
    /\ UNCHANGED <<Settings, other, constructed>>

----------------------------------------------------------------------------
(* The verbs of api(), called directly *)

verb(method, path) ==
    LET r == make_request(method, path, method, FALSE, store, store, last_request)
    IN /\ constructed
       /\ CanIssue
       /\ store' = r.store
       /\ reqs' = r.reqs
       /\ last_request' = r.last
       /\ ret' = IF r.threw THEN Ret(method, "throw", 0, "")
                 ELSE Ret(method, "promise", Len(r.reqs), r.reqs[Len(r.reqs)].url)
       /\ UNCHANGED <<Settings, other, constructed, params, init_ajax, init_deferred>>

api_get(p, segment) == verb("get", get_path(p, segment))
api_put(path) == verb("put", path)
api_post(path) == verb("post", path)
api_delete(path) == verb("delete", path)

----------------------------------------------------------------------------
(* The URL-only operations *)

\* the copy of the params url_next(count) hands to url
url_next_params(count) ==
    LET limit == Or(count, Get(params, "limit"))
    IN IF ~Truthy(limit) THEN params
       ELSE Set(params, "offset", Add(ToNumber(Get(params, "offset")), limit))

url_next(count) == url(url_next_params(count), Undefined)

\* the copy of the params url_prev(count) hands to url
url_prev_params(count) ==
    LET limit == Or(count, Get(params, "limit"))
    IN IF ~Truthy(limit) THEN params
       ELSE Set(params, "offset", Sub(ToNumber(Get(params, "offset")), limit))

url_prev(count) == url(url_prev_params(count), Undefined)

\* the copy of the params url_page(page, count) hands to url
url_page_params(n, count) ==
    LET limit == Or(count, Get(params, "limit"))
    IN IF ~Truthy(limit) THEN params
       ELSE Set(params, "offset", Mul(Get(params, "limit"), Sub(n, Num(1))))

url_page(n, count) == url(url_page_params(n, count), Undefined)

returns_url(op, u) ==
    /\ constructed
    /\ ret' = Ret(op, "url", 0, u)
    /\ UNCHANGED <<Settings, other, constructed, params, init_ajax, init_deferred, last_request,
                   store, reqs>>

\* a url_next that computes on the params themselves instead of on a copy
call_url_next_in_place(count) ==
    /\ constructed
    /\ params' = url_next_params(count)
    /\ ret' = Ret("url_next", "url", 0, url_next(count))
    /\ UNCHANGED <<Settings, other, constructed, init_ajax, init_deferred, last_request, store, reqs>>

call_url == returns_url("url", url(params, Undefined))
call_url_with(p, segments) == returns_url("url", url(p, segments))
call_url_next(count) == returns_url("url_next", url_next(count))
call_url_prev(count) == returns_url("url_prev", url_prev(count))
call_url_page(n, count) == returns_url("url_page", url_page(n, count))

----------------------------------------------------------------------------
(* The local queries, called on the instance *)

\* the own enumerable properties of the instance
this == own_properties(store, init_ajax, init_deferred, last_request)

returns_found(op, found) ==
    /\ constructed
    /\ ret' = [url |-> "", items |-> found.items, kind |-> found.kind, op |-> op, req |-> 0]
    /\ UNCHANGED <<Settings, other, constructed, params, init_ajax, init_deferred, last_request,
                   store, reqs>>

call_get(id) == returns_found("get", get(this, id))
call_get_where(where, limit) == returns_found("get_where", get_where(this, where, limit))
call_like(likes) == returns_found("like", like(this, likes))

----------------------------------------------------------------------------
(* A second instance: of the same type, or of another type made by CD_Model.extend with
   settings.params of its own; settings.init is off *)

\* new Model_Collection(properties) for the second instance
Other_Model_Collection(type, properties) ==
    /\ ~other.constructed
    /\ other' = Other(type, IF type = "same" THEN <<>> ELSE Limit(1),
                      IF properties.given THEN CD_Model(<<>>, properties, 0) ELSE <<>>)
    /\ ret' = Ret("new", "none", 0, "")
    /\ UNCHANGED <<Settings, constructed, params, init_ajax, init_deferred, last_request,
                   store, reqs>>

\* mc.settings.params as the second instance reads it: settings is a property of the
\* prototype of its type, so an instance of the same type reads the same object
other_params == IF other.type = "same" THEN params ELSE other.params

\* CD_Model.prototype.param, called on the second instance
other_param(key, value) ==
    LET p == IF Truthy(value) THEN Set(other_params, key, value) ELSE Del(other_params, key)
    IN /\ other.constructed
       /\ IF other.type = "same"
          THEN params' = p /\ other' = other
          ELSE params' = params /\ other' = [other EXCEPT !.params = p]
       /\ ret' = Ret("param", "none", 0, "")
       /\ UNCHANGED <<Settings, constructed, init_ajax, init_deferred, last_request,
                      store, reqs>>

----------------------------------------------------------------------------
(* The network: a pending request settles *)

settles(i, outcome, body) ==
    LET r == settle(reqs, store, i, outcome, body)
    IN /\ reqs[i].state = "pending"
       /\ reqs' = r.reqs
       /\ store' = r.store
       /\ UNCHANGED <<Settings, other, constructed, params, init_ajax, init_deferred,
                      last_request, ret>>

Succeed(i, body) == settles(i, "success", body)
Fail(i, reason, body) == settles(i, reason, body)

----------------------------------------------------------------------------
\* The request lifecycle: construction, the fetch operations init, filter, next and
\* replace, empty, a verb, and the network settling what is pending
Next ==
    \/ \E s \in Seeds : Model_Collection(s)
    \/ \E p \in InitParams : init(p)
    \/ filter("status", Str("active"))
    \/ next(Undefined)
    \/ \E p \in ReplaceParams : replace(p)
    \/ empty
    \/ api_put("7")
    \/ \E i \in 1..Len(reqs), b \in Bodies : Succeed(i, b)
    \/ \E i \in 1..Len(reqs), r \in Reasons, b \in Bodies : Fail(i, r, b)

Spec == Init /\ [][Next]_vars

\* The verbs of api(), with and without an endpoint
NextVerbs ==
    \/ \E s \in Seeds : Model_Collection(s)
    \/ \E s \in {Undefined, Str("7")} : api_get(params, s)
    \/ api_put("7")
    \/ api_post("")
    \/ api_delete("7")
    \/ \E i \in 1..Len(reqs), b \in Bodies : Succeed(i, b)
    \/ \E i \in 1..Len(reqs), r \in Reasons, b \in Bodies : Fail(i, r, b)

SpecVerbs == InitVerbs /\ [][NextVerbs]_vars

\* Pagination and the URL-only operations, for every count and page
NextPaging ==
    \/ Model_Collection(NoSeed)
    \/ \E c \in Counts : next(c)
    \/ \E c \in Counts : prev(c)
    \/ \E n \in Pages, c \in Counts : page(n, c)
    \/ call_url
    \/ \E c \in Counts : call_url_next(c)
    \/ \E c \in Counts : call_url_prev(c)
    \/ \E n \in Pages, c \in Counts : call_url_page(n, c)

SpecPaging == InitPaging /\ [][NextPaging]_vars

\* The operations that edit one key of the params: param and filter, for every value
NextParameters ==
    \/ \E s \in Seeds : Model_Collection(s)
    \/ \E k \in ParamKeys, v \in ParamValues : param(k, v)
    \/ \E v \in ParamValues : filter("status", v)

SpecParameters == InitParameters /\ [][NextParameters]_vars


\* sort and search, for every value, the argument omitted included
NextSorting ==
    \/ Model_Collection(NoSeed)
    \/ \E v \in SortValues : sort(v)
    \/ \E v \in SortValues : search(v)

SpecSorting == InitParameters /\ [][NextSorting]_vars


\* The local queries, on the records of a seed and of a response, before and after empty
NextQueries ==
    \/ \E s \in QuerySeeds : Model_Collection(s)
    \/ filter("status", Str("active"))
    \/ \E i \in 1..Len(reqs), b \in Bodies : Succeed(i, b)
    \/ empty
    \/ \E id \in Ids : call_get(id)
    \/ \E w \in Wheres, l \in Limits : call_get_where(w, l)
    \/ \E l \in Likes : call_like(l)

SpecQueries == InitQueries /\ [][NextQueries]_vars


\* the operations of the first instance that edit the params or fetch
Operation ==
    \/ \E v \in FilterValues : param("status", v)
    \/ \E v \in FilterValues : filter("status", v)
    \/ sort(Str("name"))
    \/ search(Str("jo"))
    \/ next(Undefined)
    \/ prev(Undefined)
    \/ page(Num(2), Undefined)
    \/ \E p \in InitParams : init(p)
    \/ \E p \in ReplaceParams : replace(p)

\* Two instances: the first with its operations, the second constructed and calling param
NextInstances ==
    \/ \E s \in Seeds : Model_Collection(s)
    \/ \E t \in Types, s \in Seeds : Other_Model_Collection(t, s)
    \/ Operation
    \/ \E v \in FilterValues : other_param("status", v)

SpecInstances == InitInstances /\ [][NextInstances]_vars


\* api().get and url, for every parameter map and path segment
NextUrls ==
    \/ Model_Collection(NoSeed)
    \/ \E p \in QueryMaps, segment \in Segments : api_get(p, segment)
    \/ \E p \in QueryMaps, segment \in Segments : call_url_with(p, segment)

SpecUrls == InitVerbs /\ [][NextUrls]_vars


\* replace, on a store a seed and responses have filled and params filter has edited
NextReplace ==
    \/ \E s \in Seeds : Model_Collection(s)
    \/ filter("status", Str("active"))
    \/ \E p \in ReplaceParams : replace(p)
    \/ \E i \in 1..Len(reqs), b \in Bodies : Succeed(i, b)

SpecReplace == InitVerbs /\ [][NextReplace]_vars


\* construction with and without seed data, settings.init on and off, then init and the
\* network
NextAutoload ==
    \/ \E s \in QuerySeeds : Model_Collection(s)
    \/ \E p \in InitParams : init(p)
    \/ \E i \in 1..Len(reqs), b \in Bodies : Succeed(i, b)
    \/ \E i \in 1..Len(reqs), r \in Reasons, b \in Bodies : Fail(i, r, b)

SpecAutoload == InitAutoload /\ [][NextAutoload]_vars


\* The fetch operations on a type whose endpoint is not set
NextUnset ==
    \/ \E s \in Seeds : Model_Collection(s)
    \/ \E v \in FilterValues : filter("status", v)
    \/ \E v \in SortValues : sort(v)
    \/ \E v \in SortValues : search(v)
    \/ \E c \in Counts : next(c)
    \/ \E c \in Counts : prev(c)
    \/ \E n \in Pages, c \in Counts : page(n, c)
    \/ \E p \in ReplaceParams : replace(p)

SpecUnset == InitUnset /\ [][NextUnset]_vars

----------------------------------------------------------------------------
(* Claims *)

Requests == 1..Len(reqs)
Pending == {i \in Requests : reqs[i].state = "pending"}
Fetches == {i \in Requests : reqs[i].handler}
AbortOption == proto_last # "false"

\* the records of a response body, as the store holds them when request i delivered them
Decoded(b, i) ==
    IF b.attr = "data" THEN [k \in 1..Len(b.items) |-> [src |-> i, id |-> b.items[k]]]
    ELSE <<>>

\* C1: at most one request of the instance is pending at any time. Stated for the
\* instances the abort option is on for; with the option off (the default) no request
\* is ever aborted and the bound fails all the more.
C1_AtMostOnePending == AbortOption => Cardinality(Pending) <= 1

\* C2: a fetch that is still pending when a later fetch has been issued never changes
\* the store: when it succeeds, its records are not added. Stated for the instances the
\* abort option is on for.
C2_FirstResponseNeverApplied ==
    [][\A i \in Requests :
         (/\ AbortOption
          /\ i \in Fetches /\ reqs[i].state = "pending"
          /\ \E j \in Fetches : j > i
          /\ reqs'[i].state = "success") => store' = store]_vars

C4_InitIssuesOnce == Cardinality({i \in Requests : reqs[i].op = "init"}) <= 1

\* C5, as the spec states it: when a fetch fails, the store is what it was just before
\* the operation that issued the fetch was called.
C5_StoreAsBeforeCall ==
    [][\A i \in Fetches :
         (reqs[i].state = "pending" /\ reqs'[i].state \in Reasons)
             => store' = reqs[i].before]_vars

\* C5, amended: the failure of a fetch changes nothing in the store; the store is what
\* it was just before the failure was delivered.
C5_FailureLeavesStore ==
    [][\A i \in Fetches :
         (reqs[i].state = "pending" /\ reqs'[i].state \in Reasons) => store' = store]_vars

\* a fetch has failed on a store that holds records
C5_Witness == \E i \in Fetches : reqs[i].state \in Reasons /\ store # <<>>

\* C6: the success handler of an aborted request never runs, and no record in the store
\* comes from an aborted request.
C6_AbortedNeverHandled ==
    \A i \in Requests :
        reqs[i].state = "abort"
            => ~reqs[i].handled /\ \A k \in 1..Len(store) : store[k].src # i

\* a fetch has been aborted by the request issued after it, which has succeeded
C6_Witness ==
    \E i \in Fetches : \E j \in Fetches :
        reqs[i].state = "abort" /\ j > i /\ reqs[j].handled

\* C7: with no endpoint set, get, put, post and delete throw and start no request.
Verbs == {"get", "put", "post", "delete"}

C7_NoEndpointThrows ==
    endpoint = "" => (reqs = <<>> /\ (ret.op \in Verbs => ret.kind = "throw"))

\* delete has been called on an instance with no endpoint
C7_Witness == endpoint = "" /\ ret.op = "delete" /\ ret.kind = "throw"

\* C8: with no limit in the params, next, prev and page return a rejected future, issue
\* no request and leave the params and the store as they are.
C8_NoLimitRejected ==
    [][\A c \in Counts : \A n \in Pages :
         (~Has(params, "limit") /\ (next(c) \/ prev(c) \/ page(n, c)))
             => (ret'.kind = "rejected" /\ UNCHANGED <<params, store, reqs, last_request>>)]_vars

\* page has been called, with a count, on params without limit
C8_Witness ==
    constructed /\ ~Has(params, "limit") /\ ret.op = "page" /\ ret.kind = "rejected"

OffsetOrZero == IF Has(params, "offset") THEN Get(params, "offset") ELSE Num(0)
LimitOrCount(c) == IF c # Undefined THEN c ELSE Get(params, "limit")

\* C9: for every params with a limit and every count, next and url_next compute the same
\* offset, offset + limit, offset being 0 when absent and limit being count when given.
C9_NextOffsetsAgree ==
    (constructed /\ Has(params, "limit")) =>
        \A c \in Counts :
            /\ Get(next_params(c), "offset") = Add(OffsetOrZero, LimitOrCount(c))
            /\ Get(url_next_params(c), "offset") = Add(OffsetOrZero, LimitOrCount(c))

\* C10: for every page n >= 1 and every count, page and url_page compute the same offset,
\* limit * (n - 1), limit being count when given.
C10_PageOffsetsAgree ==
    (constructed /\ Has(params, "limit")) =>
        \A n \in Pages : \A c \in Counts :
            /\ Get(page_params(n, c), "offset") = Mul(LimitOrCount(c), Sub(n, Num(1)))
            /\ Get(url_page_params(n, c), "offset") = Mul(LimitOrCount(c), Sub(n, Num(1)))

\* C11: for every params with a limit and every count, prev sets the offset to
\* offset - limit, offset being 0 when absent and limit being count when given, negative
\* results included, and url_prev computes that same offset for its URL.
C11_PrevOffsetsAgree ==
    (constructed /\ Has(params, "limit")) =>
        \A c \in Counts :
            /\ Get(prev_params(c), "offset") = Sub(OffsetOrZero, LimitOrCount(c))
            /\ Get(url_prev_params(c), "offset") = Sub(OffsetOrZero, LimitOrCount(c))

\* C12: url, url_next, url_prev and url_page issue no request and leave the params, the
\* store and the retained request as they are, for every count and page, in every state.
C12_UrlsChangeNothing ==
    [][/\ (ret'.op = "url" /\ call_url) => UNCHANGED <<params, store, reqs, last_request>>
       /\ \A c \in Counts :
             (ret'.op \in {"url_next", "url_prev"} /\ (call_url_next(c) \/ call_url_prev(c)))
                 => UNCHANGED <<params, store, reqs, last_request>>
       /\ \A c \in Counts : \A n \in Pages :
             (ret'.op = "url_page" /\ call_url_page(n, c))
                 => UNCHANGED <<params, store, reqs, last_request>>]_vars

\* url_next has returned a URL while a request of the instance is pending
C12_Witness ==
    /\ ret.op = "url_next" /\ ret.kind = "url"
    /\ Pending # {}
    /\ Has(params, "offset")

\* the last request is a pending GET, issued by op, of the URL of the params
Refetched(op, rs, p) ==
    /\ rs # <<>>
    /\ rs[Len(rs)].op = op
    /\ rs[Len(rs)].method = "get"
    /\ rs[Len(rs)].state = "pending"
    /\ rs[Len(rs)].handler
    /\ rs[Len(rs)].url = url(p, Undefined)

\* C13: filter(field, value), field given, leaves offset 0 whatever it was, sets the
\* field to a truthy value and deletes it otherwise, and issues exactly one request, a
\* GET of the updated params (the endpoint being set, as every request requires).
C13_FilterResetsAndRefetches ==
    [][\A v \in ParamValues :
         filter("status", v) =>
             /\ Get(params', "offset") = Num(0)
             /\ Get(params', "status") = (IF Truthy(v) THEN v ELSE Undefined)
             /\ Has(params', "status") = Truthy(v)
             /\ \A k \in Keys(params) \ {"status", "offset"} :
                    Has(params', k) /\ Get(params', k) = Get(params, k)
             /\ endpoint # "" => /\ Len(reqs') = Len(reqs) + 1
                                 /\ Refetched("filter", reqs', params')]_vars

\* filter has set the field on params that held a limit and an offset, and its request is pending
C13_Witness ==
    /\ ret.op = "filter" /\ ret.kind = "promise"
    /\ Get(params, "status") = Str("active")
    /\ Get(params, "offset") = Num(0)
    /\ Refetched("filter", reqs, params)
    /\ reqs[Len(reqs)].url = "/api/users/?limit=2&offset=0&status=active"

\* C14: every call of sort(value) and of search(value), the argument omitted included
\* (which deletes the key sort or q), leaves offset 0 and issues exactly one request, a
\* GET of the updated params (the endpoint being set).
C14_SortSearchReset ==
    [][\A v \in SortValues :
         /\ sort(v) =>
               /\ Get(params', "offset") = Num(0)
               /\ v = Undefined => ~Has(params', "sort")
               /\ endpoint # "" => /\ Len(reqs') = Len(reqs) + 1
                                   /\ Refetched("sort", reqs', params')
         /\ search(v) =>
               /\ Get(params', "offset") = Num(0)
               /\ v = Undefined => ~Has(params', "q")
               /\ endpoint # "" => /\ Len(reqs') = Len(reqs) + 1
                                   /\ Refetched("search", reqs', params')]_vars

\* C15: param(key, value) sets the key to a truthy value and removes it when the value
\* is omitted or falsy; every other key keeps its value, offset included, the store is
\* unchanged and no request is issued.
C15_ParamEditsOneKey ==
    [][\A k \in ParamKeys : \A v \in ParamValues :
         param(k, v) =>
             /\ Has(params', k) = Truthy(v)
             /\ Get(params', k) = (IF Truthy(v) THEN v ELSE Undefined)
             /\ Keys(params') \ {k} = Keys(params) \ {k}
             /\ \A o \in Keys(params) \ {k} : Get(params', o) = Get(params, o)
             /\ UNCHANGED <<store, reqs, last_request>>]_vars

\* param has set a key beside an offset that is not 0, on an instance that holds records
C15_Witness ==
    /\ ret.op = "param"
    /\ Get(params, "status") = Str("active")
    /\ Get(params, "offset") = Num(2)
    /\ store # <<>>

\* the records of the store, as the queries return them
Records == [i \in 1..Len(store) |-> Own("record", store[i])]
AttributeOf(r, key) == Get(Payload(r.v.id), key)
FirstN(seq, l) == IF l.t = "num" /\ Len(seq) > l.n THEN SubSeq(seq, 1, l.n) ELSE seq

\* every clause of the where map loosely equals the attribute of that name, which exists
WhereMatches(r, w) ==
    \A j \in 1..Len(w.map) :
        /\ Has(Payload(r.v.id), w.map[j].k)
        /\ LooseEquals(AttributeOf(r, w.map[j].k), w.map[j].v)

\* C16: get_where(where, limit) returns, in store order, exactly the records every
\* clause of where matches, cut to the first limit of them; with limit 1 it returns the
\* first matching record alone, or undefined when no record matches.
C16_GetWhereReturnsMatches ==
    constructed =>
        \A w \in Wheres \ {NotAMap} : \A l \in Limits :
            LET m == FirstN(SelectSeq(Records, LAMBDA r : WhereMatches(r, w)), l)
            IN get_where(this, w, l) =
                   IF l # Num(1) THEN Array(m)
                   ELSE IF m = <<>> THEN Nothing("undefined") ELSE One(m[1])

\* every clause of the like map occurs, whatever the case of the letters, in the string
\* form of the attribute of that name, which exists and is not null
LikeMatches(r, k) ==
    \A j \in 1..Len(k.map) :
        /\ Has(Payload(r.v.id), k.map[j].k)
        /\ AttributeOf(r, k.map[j].k) # Null
        /\ Contains(toLowerCase(Chars(ToStr(AttributeOf(r, k.map[j].k)))),
                    toLowerCase(Chars(ToStr(k.map[j].v))))

\* C17: like(likeMap) returns, in store order, exactly the records every clause of
\* likeMap matches, case-insensitively, as a part of the string form of the attribute of
\* that name; a record matching only some clauses, or whose attribute is absent or null,
\* is left out.
C17_LikeReturnsMatches ==
    constructed =>
        \A k \in Likes \ {NotAMap} :
            like(this, k) = Array(SelectSeq(Records, LAMBDA r : LikeMatches(r, k)))

\* the record has an id, and its id and the given id are the same number once both are
\* coerced with parseInt
SameId(r, id) ==
    /\ Has(Payload(r.v.id), "id")
    /\ parseInt(AttributeOf(r, "id")).t = "num"
    /\ parseInt(id).t = "num"
    /\ parseInt(AttributeOf(r, "id")).n = parseInt(id).n

\* C18: get(id) returns the first record, in store order, whose id is numerically equal
\* to the given id after coercion, the string "5" and the number 5 being the same id,
\* and null when the store holds no such record.
C18_GetFirstById ==
    constructed =>
        \A id \in Ids :
            LET hits == SelectSeq(Records, LAMBDA r : SameId(r, id))
            IN get(this, id) = IF hits = <<>> THEN Nothing("null") ELSE One(hits[1])

\* get has returned the record whose id is the string "5", which stands in the store
\* before the record whose id is the number 5
C18_Witness ==
    /\ ret.op = "get" /\ ret.kind = "one"
    /\ ret.items[1] = Own("record", store[1])
    /\ Len(store) >= 2
    /\ AttributeOf(Records[1], "id") = Str("5")
    /\ AttributeOf(Records[2], "id") = Num(5)

\* C19: empty() leaves the store without records and returns the instance itself; a get
\* that follows returns null for every id and a get_where that follows returns an empty
\* array for every where map.
C19_EmptyThenNothingFound ==
    [][empty =>
         /\ store' = <<>>
         /\ ret'.kind = "this"
         /\ \A id \in Ids : get(this', id) = Nothing("null")
         /\ \A w \in Wheres : get_where(this', w, Undefined) = Array(<<>>)]_vars

\* get has been called after empty, on an instance that has issued a request, and has
\* returned null
C19_Witness ==
    /\ ret.op = "get" /\ ret.kind = "null"
    /\ init_ajax = "deleted"
    /\ store = <<>>
    /\ reqs # <<>>

\* what the second instance holds: its params, its records, its init state and the
\* request it retains
OtherState ==
    <<other_params, other.store, other.init_ajax, other.init_deferred, other.last_request>>

\* C20: two instances share no mutable state: param, filter, sort, search, next, prev,
\* page, init and replace called on one instance leave the params, the store, the init
\* state and the retained request of every other instance as they are, be it of the same
\* type or of another.
C20_InstancesShareNothing ==
    [][(other.constructed /\ Operation) => OtherState' = OtherState]_vars

\* one encoded key=value pair for each key whose value is not null, in the order of the
\* keys, the first after "?" and the others after "&"
QueryOf(p) ==
    LET pairs == SelectSeq(p, LAMBDA e : e.v # Null)
        RECURSIVE join(_)
        join(i) ==
            IF i > Len(pairs) THEN ""
            ELSE (IF i = 1 THEN "?" ELSE "&")
                     \o encodeURIComponent(Str(pairs[i].k)) \o "="
                     \o encodeURIComponent(pairs[i].v) \o join(i + 1)
    IN join(1)

\* the URL of an endpoint, an optional path segment and the query of a parameter map
UrlOf(p, segment) ==
    strip_slashes(endpoint) \o "/"
        \o (IF Truthy(segment) THEN ToStr(segment) \o "/" ELSE "") \o QueryOf(p)

\* C21: for every parameter map and path segment, the URL api().get(params, segment)
\* requests is the URL url(params, segment) returns, and its query holds one encoded
\* pair per key whose value is not null, in order, after "?" and then "&".
C21_GetAndUrlAgree ==
    [][\A p \in QueryMaps : \A segment \in Segments :
         (ret'.op = "get" /\ endpoint # "" /\ api_get(p, segment)) =>
             /\ reqs'[Len(reqs')].url = url(p, segment)
             /\ url(p, segment) = UrlOf(p, segment)]_vars

\* url has returned, for a map with a null value and a value to encode, the URL a
\* request of the instance was sent to
C21_Witness ==
    /\ ret.op = "url"
    /\ ret.url = "/api/users/7/?limit=2&q=a%20b"
    /\ \E i \in Requests : reqs[i].op = "get" /\ reqs[i].url = ret.url

\* C22: replace(params) makes the params exactly the given map, replace() keeps them;
\* both empty the store and issue exactly one request, a GET of those params (the
\* endpoint being set).
C22_ReplaceSwapsAndRefetches ==
    [][\A p \in ReplaceParams :
         (ret'.op = "replace" /\ replace(p)) =>
             /\ params' = (IF p.given THEN p.map ELSE params)
             /\ store' = <<>>
             /\ endpoint # "" => /\ Len(reqs') = Len(reqs) + 1
                                 /\ Refetched("replace", reqs', params')]_vars

\* replace has been called with params on an instance whose params held a filter, and
\* its request has filled the store
C22_Witness ==
    /\ ret.op = "replace" /\ ret.kind = "promise"
    /\ params = Limit(1)
    /\ \E i \in Requests : reqs[i].op = "filter"
    /\ reqs[Len(reqs)].op = "replace" /\ reqs[Len(reqs)].handled
    /\ reqs[Len(reqs)].url = "/api/users/?limit=1"
    /\ store # <<>> /\ \A k \in 1..Len(store) : store[k].src = Len(reqs)

\* C23: constructing without seed data, settings.init on and an endpoint set, issues
\* exactly one request, the initial fetch; constructing with seed data, or with
\* settings.init off, issues none, and with seed data the store holds one record per
\* seed payload, in order.
C23_ConstructionLoadsOrSeeds ==
    [][\A s \in QuerySeeds :
         (~constructed /\ Model_Collection(s)) =>
             IF ~s.given /\ autoload /\ endpoint # ""
             THEN /\ Len(reqs') = 1
                  /\ Refetched("init", reqs', params')
                  /\ store' = <<>>
             ELSE /\ reqs' = <<>>
                  /\ store' = [i \in 1..Len(s.items) |-> CD_Result(s.items[i], 0)]]_vars

\* an instance constructed with settings.init on holds the records of its initial fetch,
\* the only request issued
C23_Witness ==
    /\ autoload /\ constructed
    /\ Len(reqs) = 1 /\ reqs[1].op = "init" /\ reqs[1].handled
    /\ store # <<>> /\ \A k \in 1..Len(store) : store[k].src = 1

\* C24: aborting is an option. While _last_request is false no request of the instance
\* is ever aborted and no request is retained; once it is not false, every request
\* issued is retained in _last_request and aborts, when it is dispatched, the request
\* issued before it, if that one is still pending.
C24_AbortIsAnOption ==
    [][/\ ~AbortOption =>
             /\ last_request' = 0
             /\ \A i \in 1..Len(reqs') : reqs'[i].state # "abort"
       /\ (AbortOption /\ Len(reqs') = Len(reqs) + 1) =>
             /\ last_request' = Len(reqs')
             /\ (reqs # <<>> /\ reqs[Len(reqs)].state = "pending")
                    => reqs'[Len(reqs)].state = "abort"]_vars

\* C25: empty() removes only records: it leaves _init_ajax, _init and the retained
\* _last_request as they are, and so does the empty() inside replace(), whose request
\* then aborts the request that was pending before.
C25_EmptyKeepsLifecycle ==
    [][/\ (ret'.op = "empty" /\ empty) =>
             /\ store' = <<>>
             /\ UNCHANGED <<init_ajax, init_deferred, last_request>>
       /\ \A p \in ReplaceParams :
             (ret'.op = "replace" /\ replace(p) /\ AbortOption
                  /\ last_request > 0 /\ reqs[last_request].state = "pending")
                 => reqs'[last_request].state = "abort"]_vars

FetchOperations == {"filter", "sort", "search", "next", "prev", "page", "replace"}

\* C26: with no endpoint set, a call of filter, sort, search, next, prev, page or replace
\* throws the configuration error and leaves the params, offset included, and the store
\* exactly as they were before the call.
C26_NoEndpointChangesNothing ==
    [][(endpoint = "" /\ ret'.op \in FetchOperations)
           => (ret'.kind = "throw" /\ UNCHANGED <<params, store>>)]_vars

\* the URL of the request a fetch operation issues once it has made the params p
RequestUrl(p) == strip_slashes(endpoint) \o "/" \o get_path(p, Undefined)

\* C27: for every params with a limit and every count, url_next(count) returns the URL
\* of the request next(count) would issue in the same state, the limit it carries
\* included; likewise url_prev and prev, url_page and page.
C27_UrlsAreRequestUrls ==
    (constructed /\ endpoint # "" /\ Has(params, "limit")) =>
        \A c \in Counts :
            /\ url_next(c) = RequestUrl(next_params(c))
            /\ url_prev(c) = RequestUrl(prev_params(c))
            /\ \A n \in Pages : url_page(n, c) = RequestUrl(page_params(n, c))

====
